---- MODULE Spec2Model ----
(***************************************************************************)
(* A model of the function-calling agent of llm_tool_pattern_starter.py:   *)
(* parse_tool_call, the tool decorator, ToolAgent.run and the four tools.  *)
(*                                                                         *)
(* Texts (model replies, prompts, serialized results) are sequences of     *)
(* lexical tokens; JSON values are records of one uniform shape so that    *)
(* any two of them can be compared.                                        *)
(***************************************************************************)
EXTENDS Integers, Sequences, FiniteSets, TLC

(***************************************************************************)
(* Bounds of the model.                                                    *)
(***************************************************************************)
\* longest registry handed to ToolAgent(tools)
MaxTools == 2
\* integers the model's replies use as argument values: 0..MaxArg
MaxArg == 1
\* the longest reply text, in tokens, of the exhaustive text universe
MaxText == 3
\* how often tool is applied to one function
MaxDecorate == 2
\* the longest list of articles handed to process_data directly
MaxData == 3

(***************************************************************************)
(* Tokens of a text.                                                       *)
(***************************************************************************)
Tok(k, s, n) == [k |-> k, s |-> s, n |-> n, d |-> 1]
\* punctuation and the literals null, true, false
P(s) == Tok("p", s, 0)
\* a JSON string literal "s"
S(s) == Tok("str", s, 0)
\* a JSON integer literal
N(n) == Tok("num", "", n)
\* a JSON number with a fraction, n/d
F(n, d) == [k |-> "float", s |-> "", n |-> n, d |-> d]
\* white space
WS == Tok("ws", " ", 0)
\* prose: characters that start no JSON value
Raw(s) == Tok("raw", s, 0)
\* the delimiter tags matched by the pattern </?tool_call>
TagOpen == Tok("tag", "<tool_call>", 0)
TagClose == Tok("tag", "</tool_call>", 0)

(***************************************************************************)
(* JSON values as Python holds them after json.loads: t is the type, n/d   *)
(* the number (d = 1 for an int, n/d in lowest terms for a float), s the   *)
(* string, m the entries of a dict (in insertion order) or of a list       *)
(* (keys "").                                                              *)
(***************************************************************************)
JV(t, n, d, s, m) == [t |-> t, n |-> n, d |-> d, s |-> s, m |-> m]
JNone == JV("null", 0, 1, "", <<>>)
JBool(b) == JV("bool", IF b THEN 1 ELSE 0, 1, "", <<>>)
JInt(n) == JV("int", n, 1, "", <<>>)
JFloat(n, d) == JV("float", n, d, "", <<>>)
JStr(s) == JV("str", 0, 1, s, <<>>)
JList(vs) == JV("list", 0, 1, "", [i \in 1..Len(vs) |-> [k |-> "", v |-> vs[i]]])
JDict(es) == JV("dict", 0, 1, "", es)
Entry(k, v) == [k |-> k, v |-> v]

\* the values of a list, the keys of a dict
Items(v) == [i \in 1..Len(v.m) |-> v.m[i].v]
Keys(v) == {v.m[i].k : i \in 1..Len(v.m)}

\* dict.get(key, default)
DictGet(v, key, default) ==
    IF key \in Keys(v)
    THEN v.m[CHOOSE i \in 1..Len(v.m) : v.m[i].k = key].v
    ELSE default

\* d[key] = val on the entries of a dict: a present key keeps its position
DictPut(es, key, val) ==
    IF \E i \in 1..Len(es) : es[i].k = key
    THEN [i \in 1..Len(es) |-> IF es[i].k = key THEN Entry(key, val) ELSE es[i]]
    ELSE Append(es, Entry(key, val))

\* Python's truth value of a JSON value (the test "if tool_call:")
Truthy(v) ==
    CASE v.t = "null" -> FALSE
      [] v.t \in {"bool", "int", "float"} -> v.n # 0
      [] v.t = "str" -> v.s # ""
      [] OTHER -> v.m # <<>>

(***************************************************************************)
(* json.loads on a token sequence: a recursive-descent decoder. A result   *)
(* is [ok, v, rest]; ok = FALSE stands for the JSONDecodeError it raises.  *)
(***************************************************************************)
ParseFail == [ok |-> FALSE, v |-> JNone, rest |-> <<>>]
ParseOk(v, rest) == [ok |-> TRUE, v |-> v, rest |-> rest]

RECURSIVE SkipWs(_)
SkipWs(toks) ==
    IF toks # <<>> /\ Head(toks).k = "ws" THEN SkipWs(Tail(toks)) ELSE toks

RECURSIVE ParseValue(_), ParseMembers(_, _), ParseElements(_, _)
ParseValue(toks0) ==
    LET toks == SkipWs(toks0) IN
    IF toks = <<>> THEN ParseFail
    ELSE LET h == Head(toks)
             r == Tail(toks)
         IN CASE h.k = "str" -> ParseOk(JStr(h.s), r)
              [] h.k = "num" -> ParseOk(JInt(h.n), r)
              [] h.k = "float" -> ParseOk(JFloat(h.n, h.d), r)
              [] h = P("null") -> ParseOk(JNone, r)
              [] h = P("true") -> ParseOk(JBool(TRUE), r)
              [] h = P("false") -> ParseOk(JBool(FALSE), r)
              [] h = P("{") ->
                    LET r2 == SkipWs(r) IN
                    IF r2 # <<>> /\ Head(r2) = P("}")
                    THEN ParseOk(JDict(<<>>), Tail(r2))
                    ELSE ParseMembers(r2, <<>>)
              [] h = P("[") ->
                    LET r2 == SkipWs(r) IN
                    IF r2 # <<>> /\ Head(r2) = P("]")
                    THEN ParseOk(JList(<<>>), Tail(r2))
                    ELSE ParseElements(r2, <<>>)
              [] OTHER -> ParseFail

\* the members of an object after "{" or ",": "key" : value, then "," or "}"
ParseMembers(toks0, acc) ==
    LET toks == SkipWs(toks0) IN
    IF toks = <<>> \/ Head(toks).k # "str" THEN ParseFail
    ELSE LET key == Head(toks).s
             r1 == SkipWs(Tail(toks))
         IN IF r1 = <<>> \/ Head(r1) # P(":") THEN ParseFail
            ELSE LET pv == ParseValue(Tail(r1))
                     r2 == SkipWs(pv.rest)
                     acc2 == DictPut(acc, key, pv.v)
                 IN IF ~pv.ok \/ r2 = <<>> THEN ParseFail
                    ELSE IF Head(r2) = P("}") THEN ParseOk(JDict(acc2), Tail(r2))
                    ELSE IF Head(r2) = P(",") THEN ParseMembers(Tail(r2), acc2)
                    ELSE ParseFail

\* the elements of an array after "[" or ",": value, then "," or "]"
ParseElements(toks0, acc) ==
    LET pv == ParseValue(toks0)
        r2 == SkipWs(pv.rest)
        acc2 == Append(acc, pv.v)
    IN IF ~pv.ok \/ r2 = <<>> THEN ParseFail
       ELSE IF Head(r2) = P("]") THEN ParseOk(JList(acc2), Tail(r2))
       ELSE IF Head(r2) = P(",") THEN ParseElements(Tail(r2), acc2)
       ELSE ParseFail

\* json.loads(text): one value, then nothing but white space
JsonLoads(text) ==
    LET pv == ParseValue(text) IN
    IF pv.ok /\ SkipWs(pv.rest) = <<>> THEN pv ELSE ParseFail

(***************************************************************************)
(* json.dumps with its default separators ", " and ": ".                   *)
(***************************************************************************)
RECURSIVE JsonDumps(_), DumpEntries(_, _, _)
JsonDumps(v) ==
    CASE v.t = "null" -> <<P("null")>>
      [] v.t = "bool" -> IF v.n = 1 THEN <<P("true")>> ELSE <<P("false")>>
      [] v.t = "int" -> <<N(v.n)>>
      [] v.t = "float" -> <<F(v.n, v.d)>>
      [] v.t = "str" -> <<S(v.s)>>
      [] v.t = "list" -> <<P("[")>> \o DumpEntries(v.m, 1, FALSE) \o <<P("]")>>
      [] OTHER -> <<P("{")>> \o DumpEntries(v.m, 1, TRUE) \o <<P("}")>>

DumpEntries(es, i, keyed) ==
    IF i > Len(es) THEN <<>>
    ELSE (IF i > 1 THEN <<P(","), WS>> ELSE <<>>)
         \o (IF keyed THEN <<S(es[i].k), P(":"), WS>> ELSE <<>>)
         \o JsonDumps(es[i].v)
         \o DumpEntries(es, i + 1, keyed)

(***************************************************************************)
(* parse_tool_call: remove the tags, decode, None on any failure.          *)
(***************************************************************************)
\* re.sub(r'</?tool_call>', '', tool_call_str)
clean_tags(tool_call_str) == SelectSeq(tool_call_str, LAMBDA t : t.k # "tag")

\* a slip of line 17: the tags are left in the text that is decoded
parse_tool_call_tagged(tool_call_str) ==
    LET pv == JsonLoads(tool_call_str) IN
    IF pv.ok THEN pv.v ELSE JNone

\* the decoded value; None (JNone) when json.loads raises
parse_tool_call(tool_call_str) ==
    LET pv == JsonLoads(clean_tags(tool_call_str)) IN
    IF pv.ok THEN pv.v ELSE JNone

(***************************************************************************)
(* Callables and the tool decorator.                                       *)
(***************************************************************************)
\* what a call yields: a returned value or a raised Exception with str(e)
Return(v) == [raised |-> FALSE, v |-> v, msg |-> ""]
Raise(msg) == [raised |-> TRUE, v |-> JNone, msg |-> msg]

\* a function object: its __name__, __doc__ (None without a docstring),
\* parameters in order, how many of them have no default, the attributes
\* set on it besides, and the tool_definition attribute (JNone: unset)
Func(name, doc, params, nreq) ==
    [name |-> name, doc |-> JStr(doc), params |-> params, nreq |-> nreq,
     attrs |-> JDict(<<>>), tool_definition |-> JNone]

\* a slip of lines 42-50: the decorator returns a wrapper around func
tool_wrapper(func) ==
    [func EXCEPT !.name = "wrapper", !.doc = JNone,
                 !.tool_definition =
        JDict(<<Entry("name", JStr(func.name)),
                Entry("description", func.doc),
                Entry("parameters", DictGet(func.attrs, "parameters", JDict(<<>>))),
                Entry("returns", DictGet(func.attrs, "returns", JDict(<<>>)))>>)]

\* @tool: the definition is set on the function, which is returned
tool(func) ==
    [func EXCEPT !.tool_definition =
        JDict(<<Entry("name", JStr(func.name)),
                Entry("description", func.doc),
                Entry("parameters", DictGet(func.attrs, "parameters", JDict(<<>>))),
                Entry("returns", DictGet(func.attrs, "returns", JDict(<<>>)))>>)]

\* the functions as their def statements make them
def_search_hackernews ==
    Func("search_hackernews", "Search HackerNews articles by keyword.",
         <<"query", "limit">>, 1)
def_process_data ==
    Func("process_data", "Process a list of articles with basic operations.",
         <<"data", "operation">>, 1)
def_fetch_weather ==
    Func("fetch_weather", "Fetch the current weather for a specified city.",
         <<"city", "units">>, 1)
def_add == Func("add", "Add two numbers.", <<"x", "y">>, 2)

\* the names of the module, bound to what the decorator returns
search_hackernews == tool(def_search_hackernews)
process_data == tool(def_process_data)
fetch_weather == tool(def_fetch_weather)
add == tool(def_add)

\* the default values of the optional parameters
Defaults(func) ==
    CASE func.name = "search_hackernews" -> <<Entry("limit", JInt(5))>>
      [] func.name = "process_data" -> <<Entry("operation", JStr("count"))>>
      [] func.name = "fetch_weather" -> <<Entry("units", JStr("metric"))>>
      [] OTHER -> <<>>

(***************************************************************************)
(* Numbers.                                                                *)
(***************************************************************************)
IsNum(v) == v.t \in {"bool", "int", "float"}

RECURSIVE Gcd(_, _)
Gcd(a, b) == IF b = 0 THEN a ELSE Gcd(b, a % b)
Abs(a) == IF a < 0 THEN -a ELSE a

\* the number n/d in lowest terms, as a float or (for d = 1) as an int
Number(n, d, isFloat) ==
    LET g == Gcd(Abs(n), d)
        nn == IF g = 0 THEN 0 ELSE n \div g
        dd == IF g = 0 THEN 1 ELSE d \div g
    IN IF isFloat THEN JFloat(nn, dd) ELSE JInt(nn)

\* x + y on numbers
NumAdd(x, y) ==
    Number(x.n * y.d + y.n * x.d, x.d * y.d, x.t = "float" \/ y.t = "float")

\* type(v).__name__
TypeName(v) ==
    CASE v.t = "null" -> "NoneType"
      [] OTHER -> v.t

(***************************************************************************)
(* The tools' bodies. net is what the network does to a request made       *)
(* during the call: "ok" or "down".                                        *)
(***************************************************************************)
\* def add(x, y): return x + y
add_body(x, y) ==
    CASE IsNum(x) /\ IsNum(y) -> Return(NumAdd(x, y))
      [] x.t = "str" /\ y.t = "str" -> Return(JStr(x.s \o y.s))
      [] x.t = "list" /\ y.t = "list" -> Return(JV("list", 0, 1, "", x.m \o y.m))
      [] OTHER -> Raise("unsupported operand type(s) for +: '" \o TypeName(x)
                        \o "' and '" \o TypeName(y) \o "'")

\* len(v), defined for str, list and dict
HasLen(v) == v.t \in {"str", "list", "dict"}
PyLen(v) == IF v.t = "str" THEN Len(v.s) ELSE Len(v.m)

\* what "for article in data" visits: the items of a list, the keys of a
\* dict, the characters of a string (one-character strings: which character
\* plays no role below, none contains "score" and none has .get)
Iterable(v) == v.t \in {"str", "list", "dict"}
Iterate(v) ==
    CASE v.t = "list" -> Items(v)
      [] v.t = "dict" -> [i \in 1..Len(v.m) |-> JStr(v.m[i].k)]
      [] OTHER -> [i \in 1..Len(v.s) |-> JStr("c")]

\* a slip of line 143: the test for the score key is left out
ScoreIn_always(article) == TRUE

\* "score" in article, for the containers that define it; on a string it is
\* a substring test, and the strings of this model contain "score" only as
\* the whole string
ScoreIn(article) ==
    CASE article.t = "dict" -> "score" \in Keys(article)
      [] article.t = "list" -> \E i \in 1..Len(article.m) : article.m[i].v = JStr("score")
      [] OTHER -> article.s = "score"

\* [article.get("score", 0) for article in data if "score" in article]
RECURSIVE Scores(_, _, _)
Scores(articles, i, acc) ==
    IF i > Len(articles) THEN Return(JList(acc))
    ELSE LET article == articles[i] IN
         IF ~Iterable(article)
         THEN Raise("argument of type '" \o TypeName(article) \o "' is not iterable")
         ELSE IF ~ScoreIn(article) THEN Scores(articles, i + 1, acc)
         ELSE IF article.t # "dict"
         THEN Raise("'" \o TypeName(article) \o "' object has no attribute 'get'")
         ELSE Scores(articles, i + 1, Append(acc, DictGet(article, "score", JInt(0))))

\* sum(scores), from the int 0
RECURSIVE Sum(_, _, _)
Sum(scores, i, acc) ==
    IF i > Len(scores) THEN Return(acc)
    ELSE IF ~IsNum(scores[i])
    THEN Raise("unsupported operand type(s) for +: '" \o TypeName(acc)
               \o "' and '" \o TypeName(scores[i]) \o "'")
    ELSE Sum(scores, i + 1, NumAdd(acc, scores[i]))

\* a > b on numbers
NumGreater(a, b) == a.n * b.d > b.n * a.d

\* max(data, key=lambda x: x.get("score", 0), default=None): best is the
\* index of the largest key so far (0: none yet), the first one among equals.
\* Python orders two strings and two lists as well; the replies of this
\* model never make two of them meet, and the first is kept.
RECURSIVE MaxArticle(_, _, _)
MaxArticle(articles, i, best) ==
    IF i > Len(articles)
    THEN Return(IF best = 0 THEN JNone ELSE articles[best])
    ELSE IF articles[i].t # "dict"
    THEN Raise("'" \o TypeName(articles[i]) \o "' object has no attribute 'get'")
    ELSE IF best = 0 THEN MaxArticle(articles, i + 1, i)
    ELSE LET k == DictGet(articles[i], "score", JInt(0))
             kbest == DictGet(articles[best], "score", JInt(0))
         IN IF IsNum(k) /\ IsNum(kbest)
            THEN MaxArticle(articles, i + 1, IF NumGreater(k, kbest) THEN i ELSE best)
            ELSE IF k.t = kbest.t /\ k.t \in {"str", "list"}
            THEN MaxArticle(articles, i + 1, best)
            ELSE Raise("'>' not supported between instances of '" \o TypeName(k)
                       \o "' and '" \o TypeName(kbest) \o "'")

\* def process_data(data, operation="count")
process_data_body(data, operation) ==
    IF operation = JStr("count")
    THEN IF HasLen(data)
         THEN Return(JDict(<<Entry("count", JInt(PyLen(data)))>>))
         ELSE Raise("object of type '" \o TypeName(data) \o "' has no len()")
    ELSE IF operation = JStr("average")
    THEN IF ~Iterable(data)
         THEN Raise("'" \o TypeName(data) \o "' object is not iterable")
         ELSE LET scores == Scores(Iterate(data), 1, <<>>)
                  total == Sum(Items(scores.v), 1, JInt(0))
                  n == Len(scores.v.m)
              IN IF scores.raised THEN scores
                 ELSE IF n = 0 THEN Return(JDict(<<Entry("average_score", JInt(0))>>))
                 ELSE IF total.raised THEN total
                 ELSE Return(JDict(<<Entry("average_score",
                                           Number(total.v.n, total.v.d * n, TRUE))>>))
    ELSE IF operation = JStr("max")
    THEN IF ~Iterable(data)
         THEN Raise("'" \o TypeName(data) \o "' object is not iterable")
         ELSE LET max_article == MaxArticle(Iterate(data), 1, 0) IN
              IF max_article.raised THEN max_article
              ELSE IF Truthy(max_article.v)
              THEN Return(JDict(<<Entry("max_score_article", max_article.v)>>))
              ELSE Return(JDict(<<>>))
    ELSE Return(JDict(<<Entry("error", JStr("Invalid operation"))>>))

\* what the network can do to a request
Net == {"ok", "down"}

\* the weather service's answer for a city, as fetch_weather reshapes it
WeatherReport ==
    JDict(<<Entry("city", JStr("Arlington")), Entry("temperature", JInt(20)),
            Entry("weather", JStr("clear sky")), Entry("humidity", JInt(50)),
            Entry("wind_speed", JInt(3))>>)

\* def fetch_weather(city, units="metric"): every failure is caught inside
fetch_weather_body(city, units, net) ==
    IF net = "ok" THEN Return(WeatherReport)
    ELSE Return(JDict(<<Entry("error",
                         JStr("Failed to fetch weather data: " \o "ConnectionError"))>>))

\* the hits of the search service: one with a url, one without
Hits ==
    <<JDict(<<Entry("title", JStr("A")), Entry("url", JStr("http://a")),
              Entry("points", JInt(11))>>),
      JDict(<<Entry("title", JStr("B")), Entry("url", JNone),
              Entry("points", JInt(12))>>)>>

\* hits[:limit]
Slice(hits, limit) ==
    LET n == IF limit.t = "null" THEN Len(hits)
             ELSE IF limit.n < 0 THEN (IF Len(hits) + limit.n < 0 THEN 0 ELSE Len(hits) + limit.n)
             ELSE IF limit.n > Len(hits) THEN Len(hits) ELSE limit.n
    IN SubSeq(hits, 1, n)

\* {'title': ..., 'url': ..., 'score': item['points']} for the hits with a url
RECURSIVE Articles(_, _)
Articles(hits, i) ==
    IF i > Len(hits) THEN <<>>
    ELSE (IF Truthy(DictGet(hits[i], "url", JNone))
          THEN <<JDict(<<Entry("title", DictGet(hits[i], "title", JNone)),
                        Entry("url", DictGet(hits[i], "url", JNone)),
                        Entry("score", DictGet(hits[i], "points", JNone))>>)>>
          ELSE <<>>) \o Articles(hits, i + 1)

\* def search_hackernews(query, limit=5): every failure is caught inside
search_hackernews_body(query, limit, net) ==
    IF net = "down"
    THEN Return(JList(<<JDict(<<Entry("error",
                    JStr("Failed to fetch articles: " \o "ConnectionError"))>>)>>))
    ELSE IF limit.t \notin {"null", "int", "bool"}
    THEN Return(JList(<<JDict(<<Entry("error",
                    JStr("Failed to fetch articles: "
                         \o "slice indices must be integers or None or have an __index__ method"))>>)>>))
    ELSE Return(JList(Articles(Slice(Hits, limit), 1)))

(***************************************************************************)
(* Calling a tool with the arguments as keyword bindings, then its body.   *)
(***************************************************************************)
ParamSet(func) == {func.params[i] : i \in 1..Len(func.params)}
Required(func) == {func.params[i] : i \in 1..func.nreq}

\* the value a parameter is bound to
Bound(func, kwargs, param) ==
    DictGet(kwargs, param, DictGet(JDict(Defaults(func)), param, JNone))

Call(func, kwargs, net) ==
    IF kwargs.t # "dict"
    THEN Raise("llm_tool_pattern_starter." \o func.name
               \o "() argument after ** must be a mapping, not "
               \o TypeName(kwargs))
    ELSE IF ~(Keys(kwargs) \subseteq ParamSet(func))
    THEN Raise(func.name \o "() got an unexpected keyword argument '"
               \o kwargs.m[CHOOSE i \in 1..Len(kwargs.m) :
                      /\ kwargs.m[i].k \notin ParamSet(func)
                      /\ \A j \in 1..(i - 1) : kwargs.m[j].k \in ParamSet(func)].k
               \o "'")
    ELSE IF ~(Required(func) \subseteq Keys(kwargs))
    THEN LET missing == SelectSeq(SubSeq(func.params, 1, func.nreq),
                                  LAMBDA q : q \notin Keys(kwargs))
         IN IF Len(missing) = 1
            THEN Raise(func.name \o "() missing 1 required positional argument: '"
                       \o missing[1] \o "'")
            ELSE Raise(func.name \o "() missing 2 required positional arguments: '"
                       \o missing[1] \o "' and '" \o missing[2] \o "'")
    ELSE LET arg(p) == Bound(func, kwargs, p) IN
         CASE func.name = "add" -> add_body(arg("x"), arg("y"))
           [] func.name = "process_data" ->
                process_data_body(arg("data"), arg("operation"))
           [] func.name = "fetch_weather" ->
                fetch_weather_body(arg("city"), arg("units"), net)
           [] OTHER -> search_hackernews_body(arg("query"), arg("limit"), net)

(***************************************************************************)
(* The inputs of a run: the registry, the user message, the replies of the *)
(* model service.                                                          *)
(***************************************************************************)
RegisteredTools == {search_hackernews, process_data, fetch_weather, add}

\* every registry of at most MaxTools tools, repetitions included
Registries == UNION {[1..n -> RegisteredTools] : n \in 0..MaxTools}

UserMessages == {"Add 5 and 3"}

IntArgs == {JInt(a) : a \in 0..MaxArg}

\* the JSON object the system prompt asks for
ToolCall(name, args) ==
    JDict(<<Entry("name", name), Entry("arguments", args)>>)

\* argument values that are not a mapping
NonMappings == {JNone, JInt(1), JStr("s"), JList(<<JInt(1)>>)}

AddArguments ==
    {JDict(<<Entry("num1", a), Entry("num2", b)>>) : a \in IntArgs, b \in IntArgs}
    \cup {JDict(<<Entry("x", a), Entry("y", b)>>) : a \in IntArgs, b \in IntArgs}
    \cup {JDict(<<Entry("num1", a)>>) : a \in IntArgs}
    \cup {JDict(<<Entry("num2", a)>>) : a \in IntArgs}
    \cup {JDict(<<Entry("num1", a), Entry("x", JInt(1)), Entry("num2", JInt(1)),
                  Entry("z", JInt(0))>>) : a \in IntArgs}
    \cup {JDict(<<Entry("num1", JInt(5)), Entry("num2", JInt(3))>>),
          JDict(<<Entry("num1", JStr("a")), Entry("num2", JStr("b"))>>),
          JDict(<<Entry("num1", JInt(1)), Entry("num2", JStr("b"))>>),
          JDict(<<>>)}

DataArguments ==
    {JList(<<>>), JInt(1), JStr("ab"), JList(<<JInt(1)>>),
     JList(<<JDict(<<Entry("score", JInt(1))>>), JDict(<<Entry("title", JStr("t"))>>)>>),
     JList(<<JDict(<<Entry("score", JStr("high"))>>), JDict(<<Entry("score", JInt(1))>>)>>)}
    \cup {JList(<<JDict(<<Entry("score", a)>>), JDict(<<Entry("score", b)>>)>>) :
            a \in IntArgs, b \in IntArgs}

ProcessDataArguments ==
    {JDict(<<Entry("data", d), Entry("operation", JStr(op))>>) :
        d \in DataArguments, op \in {"count", "average", "max", "median"}}
    \cup {JDict(<<Entry("data", JList(<<>>))>>),
          JDict(<<Entry("operation", JStr("count"))>>)}

FetchWeatherArguments ==
    {JDict(<<Entry("city", JStr("Arlington"))>>),
     JDict(<<Entry("city", JStr("Arlington")), Entry("units", JStr("imperial"))>>),
     JDict(<<Entry("town", JStr("Arlington"))>>),
     JDict(<<>>)}

SearchArguments ==
    {JDict(<<Entry("query", JStr("OpenAI"))>>),
     JDict(<<Entry("query", JStr("OpenAI")), Entry("limit", JStr("two"))>>)}
    \cup {JDict(<<Entry("query", JStr("OpenAI")), Entry("limit", a)>>) : a \in IntArgs}

\* the calls a reply can carry: known and unknown names, names that are not
\* strings, arguments that are not mappings, missing keys
ToolCalls ==
    {ToolCall(JStr("add"), a) : a \in AddArguments \cup NonMappings}
    \cup {ToolCall(JStr("process_data"), a) : a \in ProcessDataArguments}
    \cup {ToolCall(JStr("fetch_weather"), a) : a \in FetchWeatherArguments \cup NonMappings}
    \cup {ToolCall(JStr("search_hackernews"), a) : a \in SearchArguments}
    \cup {ToolCall(JStr("subtract"), a) :
            a \in {JDict(<<Entry("num1", JInt(1)), Entry("num2", JInt(1))>>), JNone}}
    \cup {ToolCall(JInt(1), JDict(<<>>)), ToolCall(JNone, JDict(<<>>)),
          JDict(<<Entry("name", JStr("add"))>>),
          JDict(<<Entry("name", JStr("fetch_weather"))>>),
          JDict(<<Entry("arguments", JDict(<<Entry("num1", JInt(1))>>))>>)}

\* a call framed by the tags, as the system prompt shows it
Tagged(v) == <<TagOpen, WS>> \o JsonDumps(v) \o <<WS, TagClose>>

\* JSON values that are not a tool call
OtherJson ==
    {JNone, JBool(TRUE), JBool(FALSE), JInt(0), JInt(1), JStr(""), JStr("hi"),
     JList(<<>>), JList(<<JInt(1)>>), JDict(<<>>)}

Prose == <<Raw("The sum of 5 and 3 is 8.")>>

\* texts that json.loads rejects
Undecodable ==
    {<<>>, Prose,
     Prose \o Tagged(ToolCall(JStr("add"), JDict(<<Entry("num1", JInt(1)), Entry("num2", JInt(1))>>))),
     <<TagOpen, P("{"), S("name"), P(":"), S("add"), P(","), TagClose>>,
     <<TagOpen, P("{"), S("name"), P(":"), S("add"), TagClose>>,
     <<TagOpen, P("{"), S("name"), S("add"), P("}"), TagClose>>,
     <<TagOpen, P("["), N(1), P(","), P("]"), TagClose>>,
     <<TagOpen, N(1), N(1), TagClose>>,
     <<TagOpen, TagClose>>}

\* the texts the model service may reply with
Replies ==
    {Tagged(c) : c \in ToolCalls}
    \cup {JsonDumps(c) : c \in {ToolCall(JStr("add"), a) : a \in AddArguments}}
    \cup {Tagged(v) : v \in OtherJson}
    \cup {JsonDumps(v) : v \in OtherJson}
    \cup Undecodable

\* the replies to the second request: prose or one more well-formed call
FinalReplies ==
    {Prose,
     Tagged(ToolCall(JStr("add"), JDict(<<Entry("num1", JInt(1)), Entry("num2", JInt(1))>>)))}

\* every text of at most MaxText tokens over the tokens that matter to
\* parse_tool_call: the tags, JSON punctuation and scalars, white space, and
\* a run of characters that is not JSON
TextTokens ==
    {TagOpen, TagClose, P("{"), P("}"), P("["), P("]"), P(":"), P(","),
     S("name"), N(1), WS, Raw("Sure!")}
ShortTexts == UNION {[1..n -> TextTokens] : n \in 0..MaxText}

\* a few first replies: a call of add that returns, one that
\* raises, a call of fetch_weather, an unknown tool, prose, a JSON scalar
FewReplies ==
    {Tagged(ToolCall(JStr("add"), JDict(<<Entry("num1", JInt(5)), Entry("num2", JInt(3))>>))),
     Tagged(ToolCall(JStr("add"), JDict(<<Entry("x", JInt(1)), Entry("y", JInt(1))>>))),
     Tagged(ToolCall(JStr("fetch_weather"), JDict(<<Entry("city", JStr("Arlington"))>>))),
     Tagged(ToolCall(JStr("subtract"), JDict(<<>>))),
     Prose,
     JsonDumps(JBool(TRUE))}

\* every first reply: the replies above and every short text
Texts == Replies \cup ShortTexts

\* parse_tool_call, tabulated over the first replies (joined with the
\* empty function, which makes the table an explicit one)
ParseTable ==
    [text \in Texts \cup FewReplies |-> parse_tool_call(text)] @@ <<>>

parsed(text) == ParseTable[text]

\* messages of an exception the model service's client raises
ClientErrors == {"Connection error."}

(***************************************************************************)
(* ToolAgent.run as a state machine. pc is the position in run:            *)
(*   Start        before the prompt is assembled                           *)
(*   PromptSent   the first request is with the model service              *)
(*   Replied      assistant_reply is set, not yet parsed                   *)
(*   CallParsed   in the loop over self.tools, at tools[idx]               *)
(*   Dispatched   tools[idx] matched, about to be called                   *)
(*   ToolReturned the tool returned result                                 *)
(*   ResultSent   the second request is with the model service             *)
(*   Done         run has returned or raised: ret                          *)
(* requests, responses and calls log what the run did to the outside: the  *)
(* message lists sent to the model service, what the service answered,     *)
(* and the tool calls made.                                                *)
(***************************************************************************)
VARIABLES tools, user_msg, pc, messages, assistant_reply, tool_call,
          func_name, arguments, idx, result, ret, requests, responses, calls

\* a second run on the same agent: which of the runs the variables above
\* belong to, and the locals of the run that is not executing
VARIABLES active, parked

\* a function being decorated and called outside any run: the function as
\* defined, the object it is now, how often tool was applied to it, and the
\* last direct call of it
VARIABLES defined, decorated, ndec, direct

\* what a run leaves alone
others == <<active, parked, defined, decorated, ndec, direct>>

vars == <<tools, user_msg, pc, messages, assistant_reply, tool_call,
          func_name, arguments, idx, result, ret, requests, responses, calls,
          active, parked, defined, decorated, ndec, direct>>

Message(role, content) == [role |-> role, content |-> content]

\* a direct call of a function: the arguments, the network, the outcome
DirectCall(args, net, out) == [made |-> TRUE, args |-> args, net |-> net, out |-> out]
NoCall == [made |-> FALSE, args |-> JNone, net |-> "ok", out |-> Return(JNone)]

\* what the model service does with a request: a reply text or an exception
Replied(content) == [raised |-> FALSE, content |-> content, msg |-> ""]
Failed(msg) == [raised |-> TRUE, content |-> <<>>, msg |-> msg]

\* how run ended: it returned a string, returned None, or raised
Running == [how |-> "running", text |-> <<>>, msg |-> ""]
ReturnStr(text) == [how |-> "str", text |-> text, msg |-> ""]
ReturnNone == [how |-> "None", text |-> <<>>, msg |-> ""]
Raised(msg) == [how |-> "raised", text |-> <<>>, msg |-> msg]

\* '\n'.join([json.dumps(tool.tool_definition) for tool in self.tools])
RECURSIVE tools_definitions(_, _)
tools_definitions(ts, i) ==
    IF i > Len(ts) THEN <<>>
    ELSE (IF i > 1 THEN <<Tok("ws", "\n", 0)>> ELSE <<>>)
         \o JsonDumps(ts[i].tool_definition)
         \o tools_definitions(ts, i + 1)

\* TOOL_SYSTEM_PROMPT.format(tools=tools_definitions)
system_prompt(ts) ==
    <<Raw("You are a function-calling AI model. [...] <tools> ")>>
    \o tools_definitions(ts, 1)
    \o <<Raw(" </tools>")>>

\* a slip of line 104: the message returned bare, not as {"error": message}
ErrorAnswer_bare(msg) == ReturnStr(JsonDumps(JStr(msg)))

\* line 104: return json.dumps({"error": str(e)})
ErrorAnswer(msg) == ReturnStr(JsonDumps(JDict(<<Entry("error", JStr(msg))>>)))

\* a slip of line 107: the else branch returns nothing
NoCallAnswer_none(reply) == ReturnNone

\* lines 105-107: no tool call, return the assistant's reply
NoCallAnswer(reply) == ReturnStr(reply)

\* line 102: return final_response.choices[0].message.content
FinalAnswer(reply) == ReturnStr(reply)

\* a slip of line 103: a returned {"error": ...} handled like an exception
Caught_inband(out) == out.raised \/ (out.v.t = "dict" /\ "error" \in Keys(out.v))

\* line 103: what "except Exception" catches of a call's outcome
Caught(out) == out.raised

\* a slip of line 97: the message built without the result
ResultMessage_noresult(name, res) ==
    <<Raw("The result of "), Raw(name.s), Raw(" is: ")>>

\* f"The result of {func_name} is: {json.dumps(result)}"
ResultMessage(name, res) ==
    <<Raw("The result of "), Raw(name.s), Raw(" is: ")>> \o JsonDumps(res)

\* .get on a value that is not a dict
ArgumentError(v) == Raise("'" \o TypeName(v) \o "' object has no attribute 'get'")

\* a slip of lines 88-89: the renaming left out
Reconcile_keep(name, args) == Return(args)

\* a slip of line 88: the renaming applied whatever the name
Reconcile_all(name, args) ==
    IF args.t # "dict" THEN ArgumentError(args)
    ELSE Return(JDict(<<Entry("x", DictGet(args, "num1", JNone)),
                        Entry("y", DictGet(args, "num2", JNone))>>))

\* a slip of lines 88-89: x and y are taken when num1 and num2 are absent
Reconcile_fallback(name, args) ==
    IF name = JStr("add")
    THEN IF args.t # "dict" THEN ArgumentError(args)
         ELSE Return(JDict(<<Entry("x", DictGet(args, "num1", DictGet(args, "x", JNone))),
                             Entry("y", DictGet(args, "num2", DictGet(args, "y", JNone)))>>))
    ELSE Return(args)

\* lines 88-89: the arguments of add renamed to its parameters
Reconcile(name, args) ==
    IF name = JStr("add")
    THEN IF args.t # "dict" THEN ArgumentError(args)
         ELSE Return(JDict(<<Entry("x", DictGet(args, "num1", JNone)),
                             Entry("y", DictGet(args, "num2", JNone))>>))
    ELSE Return(args)

\* line 92: tool.__name__ == func_name
Matches(func, name) == JStr(func.name) = name

Init ==
    /\ tools \in Registries
    /\ user_msg \in UserMessages
    /\ pc = "Start"
    /\ messages = <<>>
    /\ assistant_reply = <<>>
    /\ tool_call = JNone
    /\ func_name = JNone
    /\ arguments = JNone
    /\ idx = 0
    /\ result = JNone
    /\ ret = Running
    /\ requests = <<>>
    /\ responses = <<>>
    /\ calls = <<>>
    /\ active = 1
    /\ parked = <<>>
    /\ defined = add
    /\ decorated = add
    /\ ndec = 1
    /\ direct = NoCall

\* lines 63-76: assemble the conversation and issue the first request
SendPrompt ==
    /\ pc = "Start"
    /\ UNCHANGED others
    /\ messages' = <<Message("system", system_prompt(tools)),
                     Message("user", <<Raw(user_msg)>>)>>
    /\ requests' = Append(requests, messages')
    /\ pc' = "PromptSent"
    /\ UNCHANGED <<tools, user_msg, assistant_reply, tool_call, func_name,
                   arguments, idx, result, ret, responses, calls>>

\* lines 73-79: the first request returns a reply
FirstReply ==
    /\ pc = "PromptSent"
    /\ UNCHANGED others
    /\ \E reply \in Replies :
          /\ assistant_reply' = reply
          /\ responses' = Append(responses, Replied(reply))
    /\ pc' = "Replied"
    /\ UNCHANGED <<tools, user_msg, messages, tool_call, func_name, arguments,
                   idx, result, ret, requests, calls>>

\* line 73: the first request raises, outside any try
FirstRequestFails ==
    /\ pc = "PromptSent"
    /\ UNCHANGED others
    /\ \E msg \in ClientErrors :
          /\ ret' = Raised(msg)
          /\ responses' = Append(responses, Failed(msg))
    /\ pc' = "Done"
    /\ UNCHANGED <<tools, user_msg, messages, assistant_reply, tool_call,
                   func_name, arguments, idx, result, requests, calls>>

\* a slip of lines 105-107: without a call the model is asked once more
ParseReply_retry ==
    /\ pc = "Replied"
    /\ UNCHANGED others
    /\ tool_call' = parsed(assistant_reply)
    /\ IF ~Truthy(tool_call')
       THEN /\ pc' = "PromptSent"
            /\ UNCHANGED <<ret, func_name, arguments, idx>>
       ELSE IF tool_call'.t # "dict"
       THEN /\ ret' = Raised(ArgumentError(tool_call').msg)
            /\ pc' = "Done"
            /\ UNCHANGED <<func_name, arguments, idx>>
       ELSE LET name == DictGet(tool_call', "name", JNone)
                rec == Reconcile(name, DictGet(tool_call', "arguments", JDict(<<>>)))
            IN /\ func_name' = name
               /\ IF rec.raised
                  THEN /\ ret' = Raised(rec.msg)
                       /\ pc' = "Done"
                       /\ UNCHANGED <<arguments, idx>>
                  ELSE /\ arguments' = rec.v
                       /\ idx' = 1
                       /\ pc' = "CallParsed"
                       /\ UNCHANGED ret
    /\ UNCHANGED <<tools, user_msg, messages, assistant_reply, result,
                   requests, responses, calls>>

\* lines 82-89 and 105-107: parse the reply; no call: return it; a call:
\* take name and arguments and reconcile them
ParseReply ==
    /\ pc = "Replied"
    /\ UNCHANGED others
    /\ tool_call' = parsed(assistant_reply)
    /\ IF ~Truthy(tool_call')
       THEN /\ ret' = NoCallAnswer(assistant_reply)
            /\ pc' = "Done"
            /\ UNCHANGED <<func_name, arguments, idx>>
       ELSE IF tool_call'.t # "dict"
       THEN /\ ret' = Raised(ArgumentError(tool_call').msg)
            /\ pc' = "Done"
            /\ UNCHANGED <<func_name, arguments, idx>>
       ELSE LET name == DictGet(tool_call', "name", JNone)
                rec == Reconcile(name, DictGet(tool_call', "arguments", JDict(<<>>)))
            IN /\ func_name' = name
               /\ IF rec.raised
                  THEN /\ ret' = Raised(rec.msg)
                       /\ pc' = "Done"
                       /\ UNCHANGED <<arguments, idx>>
                  ELSE /\ arguments' = rec.v
                       /\ idx' = 1
                       /\ pc' = "CallParsed"
                       /\ UNCHANGED ret
    /\ UNCHANGED <<tools, user_msg, messages, assistant_reply, result,
                   requests, responses, calls>>

\* a slip of lines 91-92: a later tool of the same name takes precedence
ScanTools_last ==
    /\ pc = "CallParsed"
    /\ UNCHANGED others
    /\ IF idx > Len(tools)
       THEN /\ ret' = ReturnNone
            /\ pc' = "Done"
            /\ UNCHANGED idx
       ELSE IF /\ Matches(tools[idx], func_name)
               /\ \A j \in (idx + 1)..Len(tools) : ~Matches(tools[j], func_name)
       THEN /\ pc' = "Dispatched"
            /\ UNCHANGED <<idx, ret>>
       ELSE /\ idx' = idx + 1
            /\ UNCHANGED <<pc, ret>>
    /\ UNCHANGED <<tools, user_msg, messages, assistant_reply, tool_call,
                   func_name, arguments, result, requests, responses, calls>>

\* lines 91-92: one turn of "for tool in self.tools"; past the end, run
\* falls off its last statement and returns None
ScanTools ==
    /\ pc = "CallParsed"
    /\ UNCHANGED others
    /\ IF idx > Len(tools)
       THEN /\ ret' = ReturnNone
            /\ pc' = "Done"
            /\ UNCHANGED idx
       ELSE IF Matches(tools[idx], func_name)
       THEN /\ pc' = "Dispatched"
            /\ UNCHANGED <<idx, ret>>
       ELSE /\ idx' = idx + 1
            /\ UNCHANGED <<pc, ret>>
    /\ UNCHANGED <<tools, user_msg, messages, assistant_reply, tool_call,
                   func_name, arguments, result, requests, responses, calls>>

\* a slip of line 104: the exception is swallowed and the loop goes on
InvokeTool_continue ==
    /\ pc = "Dispatched"
    /\ UNCHANGED others
    /\ \E net \in Net :
          LET out == Call(tools[idx], arguments, net) IN
          /\ calls' = Append(calls, [idx |-> idx, arguments |-> arguments, out |-> out])
          /\ IF Caught(out)
             THEN /\ idx' = idx + 1
                  /\ pc' = "CallParsed"
                  /\ UNCHANGED result
             ELSE /\ result' = out.v
                  /\ pc' = "ToolReturned"
                  /\ UNCHANGED idx
    /\ UNCHANGED <<tools, user_msg, messages, assistant_reply, tool_call,
                   func_name, arguments, ret, requests, responses>>

\* lines 93-94 and 103-104: call the tool; an exception becomes the answer
InvokeTool ==
    /\ pc = "Dispatched"
    /\ UNCHANGED others
    /\ \E net \in Net :
          LET out == Call(tools[idx], arguments, net) IN
          /\ calls' = Append(calls, [idx |-> idx, arguments |-> arguments, out |-> out])
          /\ IF Caught(out)
             THEN /\ ret' = ErrorAnswer(out.msg)
                  /\ pc' = "Done"
                  /\ UNCHANGED result
             ELSE /\ result' = out.v
                  /\ pc' = "ToolReturned"
                  /\ UNCHANGED ret
    /\ UNCHANGED <<tools, user_msg, messages, assistant_reply, tool_call,
                   func_name, arguments, idx, requests, responses>>

\* a slip of lines 96-97: the conversation is rebuilt without the user's
\* message and with the reply stripped of its tags
SendResult_rebuilt ==
    /\ pc = "ToolReturned"
    /\ UNCHANGED others
    /\ messages' = <<messages[1],
                     Message("assistant", clean_tags(assistant_reply)),
                     Message("user", ResultMessage(func_name, result))>>
    /\ requests' = Append(requests, messages')
    /\ pc' = "ResultSent"
    /\ UNCHANGED <<tools, user_msg, assistant_reply, tool_call, func_name,
                   arguments, idx, result, ret, responses, calls>>

\* lines 96-101: append the reply and the result, issue the second request
SendResult ==
    /\ pc = "ToolReturned"
    /\ UNCHANGED others
    /\ messages' = messages \o <<Message("assistant", assistant_reply),
                                 Message("user", ResultMessage(func_name, result))>>
    /\ requests' = Append(requests, messages')
    /\ pc' = "ResultSent"
    /\ UNCHANGED <<tools, user_msg, assistant_reply, tool_call, func_name,
                   arguments, idx, result, ret, responses, calls>>

\* a slip of line 102: the second reply goes through the parser again
FinalReply_again ==
    /\ pc = "ResultSent"
    /\ UNCHANGED others
    /\ \E reply \in FinalReplies :
          /\ responses' = Append(responses, Replied(reply))
          /\ assistant_reply' = reply
    /\ pc' = "Replied"
    /\ UNCHANGED <<tools, user_msg, messages, tool_call, func_name, arguments,
                   idx, result, ret, requests, calls>>

\* lines 98-102: the second request returns a reply, which is the answer
FinalReply ==
    /\ pc = "ResultSent"
    /\ UNCHANGED others
    /\ \E reply \in FinalReplies :
          /\ responses' = Append(responses, Replied(reply))
          /\ ret' = FinalAnswer(reply)
    /\ pc' = "Done"
    /\ UNCHANGED <<tools, user_msg, messages, assistant_reply, tool_call,
                   func_name, arguments, idx, result, requests, calls>>

\* a slip of lines 98-104: the second request is issued outside the try
FinalRequestFails_propagates ==
    /\ pc = "ResultSent"
    /\ UNCHANGED others
    /\ \E msg \in ClientErrors :
          /\ responses' = Append(responses, Failed(msg))
          /\ ret' = Raised(msg)
    /\ pc' = "Done"
    /\ UNCHANGED <<tools, user_msg, messages, assistant_reply, tool_call,
                   func_name, arguments, idx, result, requests, calls>>

\* lines 98-104: the second request raises inside the try
FinalRequestFails ==
    /\ pc = "ResultSent"
    /\ UNCHANGED others
    /\ \E msg \in ClientErrors :
          /\ responses' = Append(responses, Failed(msg))
          /\ ret' = ErrorAnswer(msg)
    /\ pc' = "Done"
    /\ UNCHANGED <<tools, user_msg, messages, assistant_reply, tool_call,
                   func_name, arguments, idx, result, requests, calls>>

Next ==
    \/ SendPrompt
    \/ FirstReply
    \/ FirstRequestFails
    \/ ParseReply
    \/ ScanTools
    \/ InvokeTool
    \/ SendResult
    \/ FinalReply
    \/ FinalRequestFails

Spec == Init /\ [][Next]_vars

(***************************************************************************)
(* The run of an agent holding add alone, the first reply ranging over     *)
(* every short text as well.                                               *)
(***************************************************************************)
TextInit == Init /\ tools = <<add>>

\* lines 73-79: the first request returns a reply, any of the texts
FirstReplyText ==
    /\ pc = "PromptSent"
    /\ UNCHANGED others
    /\ \E reply \in Texts :
          /\ assistant_reply' = reply
          /\ responses' = Append(responses, Replied(reply))
    /\ pc' = "Replied"
    /\ UNCHANGED <<tools, user_msg, messages, tool_call, func_name, arguments,
                   idx, result, ret, requests, calls>>

TextNext ==
    \/ SendPrompt
    \/ FirstReplyText
    \/ FirstRequestFails
    \/ ParseReply
    \/ ScanTools
    \/ InvokeTool
    \/ SendResult
    \/ FinalReply
    \/ FinalRequestFails

TextSpec == TextInit /\ [][TextNext]_vars

(***************************************************************************)
(* Two runs on one agent, interleaved step by step. The agent (self.tools) *)
(* is shared; everything else a run touches is local to its call of run.   *)
(* The variables of a run hold the run that is executing; the locals of    *)
(* the other one are parked.                                               *)
(***************************************************************************)
\* the locals of the run that is executing
Locals ==
    [user_msg |-> user_msg, pc |-> pc, messages |-> messages,
     assistant_reply |-> assistant_reply, tool_call |-> tool_call,
     func_name |-> func_name, arguments |-> arguments, idx |-> idx,
     result |-> result, ret |-> ret, requests |-> requests,
     responses |-> responses, calls |-> calls]

\* the locals of a run that was called and has not taken a step
Fresh(msg) ==
    [user_msg |-> msg, pc |-> "Start", messages |-> <<>>,
     assistant_reply |-> <<>>, tool_call |-> JNone, func_name |-> JNone,
     arguments |-> JNone, idx |-> 0, result |-> JNone, ret |-> Running,
     requests |-> <<>>, responses |-> <<>>, calls |-> <<>>]

TwoRunInit ==
    /\ tools = <<add, fetch_weather>>
    /\ user_msg = "Add 5 and 3"
    /\ pc = "Start"
    /\ messages = <<>>
    /\ assistant_reply = <<>>
    /\ tool_call = JNone
    /\ func_name = JNone
    /\ arguments = JNone
    /\ idx = 0
    /\ result = JNone
    /\ ret = Running
    /\ requests = <<>>
    /\ responses = <<>>
    /\ calls = <<>>
    /\ active = 1
    /\ parked = <<Fresh("What is the weather in Arlington?")>>
    /\ defined = add
    /\ decorated = add
    /\ ndec = 1
    /\ direct = NoCall

\* lines 73-79: the first request returns one of the few replies
FirstReplyFew ==
    /\ pc = "PromptSent"
    /\ UNCHANGED others
    /\ \E reply \in FewReplies :
          /\ assistant_reply' = reply
          /\ responses' = Append(responses, Replied(reply))
    /\ pc' = "Replied"
    /\ UNCHANGED <<tools, user_msg, messages, tool_call, func_name, arguments,
                   idx, result, ret, requests, calls>>

\* a slip: the conversation is kept on the agent, one list for both runs
Switch_shared ==
    /\ parked # <<>>
    /\ parked' = <<Locals>>
    /\ active' = 3 - active
    /\ user_msg' = parked[1].user_msg
    /\ pc' = parked[1].pc
    /\ assistant_reply' = parked[1].assistant_reply
    /\ tool_call' = parked[1].tool_call
    /\ func_name' = parked[1].func_name
    /\ arguments' = parked[1].arguments
    /\ idx' = parked[1].idx
    /\ result' = parked[1].result
    /\ ret' = parked[1].ret
    /\ requests' = parked[1].requests
    /\ responses' = parked[1].responses
    /\ calls' = parked[1].calls
    /\ UNCHANGED <<tools, messages, defined, decorated, ndec, direct>>

\* the other run goes on: the locals change places, the agent stays
Switch ==
    /\ parked # <<>>
    /\ parked' = <<Locals>>
    /\ active' = 3 - active
    /\ user_msg' = parked[1].user_msg
    /\ pc' = parked[1].pc
    /\ messages' = parked[1].messages
    /\ assistant_reply' = parked[1].assistant_reply
    /\ tool_call' = parked[1].tool_call
    /\ func_name' = parked[1].func_name
    /\ arguments' = parked[1].arguments
    /\ idx' = parked[1].idx
    /\ result' = parked[1].result
    /\ ret' = parked[1].ret
    /\ requests' = parked[1].requests
    /\ responses' = parked[1].responses
    /\ calls' = parked[1].calls
    /\ UNCHANGED <<tools, defined, decorated, ndec, direct>>

TwoRunNext ==
    \/ SendPrompt
    \/ FirstReplyFew
    \/ FirstRequestFails
    \/ ParseReply
    \/ ScanTools
    \/ InvokeTool
    \/ SendResult
    \/ FinalReply
    \/ FinalRequestFails
    \/ Switch

TwoRunSpec == TwoRunInit /\ [][TwoRunNext]_vars

(***************************************************************************)
(* One run that goes on until it has returned or raised: run is sequential *)
(* code, and every request and every tool invocation returns or raises.    *)
(***************************************************************************)
FairNext ==
    \/ SendPrompt
    \/ FirstReplyFew
    \/ FirstRequestFails
    \/ ParseReply
    \/ ScanTools
    \/ InvokeTool
    \/ SendResult
    \/ FinalReply
    \/ FinalRequestFails

FairSpec == Init /\ [][FairNext]_vars /\ WF_vars(FairNext)

(***************************************************************************)
(* Outside any run: a function is defined, tool is applied to it some      *)
(* times, and the object it then is gets called directly, as the tests do. *)
(***************************************************************************)
\* the functions of the module, and add without a docstring or carrying
\* the attributes tool reads with getattr
Functions ==
    {def_search_hackernews, def_process_data, def_fetch_weather, def_add}
    \cup {[def_add EXCEPT !.doc = JNone],
          [def_add EXCEPT !.attrs =
              JDict(<<Entry("parameters", JDict(<<Entry("x", JStr("int")),
                                                  Entry("y", JStr("int"))>>))>>)],
          [def_add EXCEPT !.attrs =
              JDict(<<Entry("returns", JDict(<<Entry("type", JStr("int"))>>)),
                      Entry("parameters", JDict(<<>>))>>)]}

\* articles: with a score, without one, with a score and a title
ArticleSet ==
    {JDict(<<Entry("score", JInt(n))>>) : n \in (0..MaxArg) \cup {10, 20, 30}}
    \cup {JDict(<<Entry("title", JStr("t"))>>),
          JDict(<<Entry("title", JStr("t")), Entry("score", JInt(10))>>)}

ArticleLists == UNION {[1..n -> ArticleSet] : n \in 0..MaxData}
ArticleData == {JList(d) : d \in ArticleLists}

\* the keyword arguments of a direct call
DirectArguments(f) ==
    CASE f.name = "add" ->
           {JDict(<<Entry("x", a), Entry("y", b)>>) : a \in IntArgs, b \in IntArgs}
           \cup {JDict(<<Entry("x", JInt(5)), Entry("y", JInt(3))>>),
                 JDict(<<Entry("x", JInt(1))>>)}
      [] f.name = "process_data" ->
           ProcessDataArguments
           \cup {JDict(<<Entry("data", d), Entry("operation", JStr("average"))>>) :
                    d \in ArticleData}
      [] f.name = "fetch_weather" -> FetchWeatherArguments
      [] OTHER -> SearchArguments

\* no run is under way
NoRun ==
    /\ tools = <<>>
    /\ user_msg = ""
    /\ pc = "Start"
    /\ messages = <<>>
    /\ assistant_reply = <<>>
    /\ tool_call = JNone
    /\ func_name = JNone
    /\ arguments = JNone
    /\ idx = 0
    /\ result = JNone
    /\ ret = Running
    /\ requests = <<>>
    /\ responses = <<>>
    /\ calls = <<>>
    /\ active = 1
    /\ parked = <<>>

run_vars == <<tools, user_msg, pc, messages, assistant_reply, tool_call,
              func_name, arguments, idx, result, ret, requests, responses,
              calls, active, parked>>

DirectInit ==
    /\ NoRun
    /\ defined \in Functions
    /\ decorated = defined
    /\ ndec = 0
    /\ direct = NoCall

\* lines 42-50: tool is applied to the function
Decorate ==
    /\ ndec < MaxDecorate
    /\ decorated' = tool(decorated)
    /\ ndec' = ndec + 1
    /\ UNCHANGED <<defined, direct, run_vars>>

\* the function, as it now is, is called: one call in each scenario
CallDirect ==
    /\ ~direct.made
    /\ \E args \in DirectArguments(decorated), net \in Net :
          direct' = DirectCall(args, net, Call(decorated, args, net))
    /\ UNCHANGED <<defined, decorated, ndec, run_vars>>

DirectNext ==
    \/ Decorate
    \/ CallDirect

DirectSpec == DirectInit /\ [][DirectNext]_vars

(***************************************************************************)
(* Properties of run.                                                      *)
(***************************************************************************)

\* C1: whatever text the first request returns and whatever the tool does,
\* run ends by returning a string: it never raises and never returns None.
C1_RunReturnsString ==
    (pc = "Done" /\ Len(responses) >= 1 /\ ~responses[1].raised)
        => ret.how = "str"

\* C2: a well-formed call (a name, a mapping of arguments) whose name
\* matches no tool of the registry calls no tool, and run returns the first
\* reply as it came.
C2_UnknownToolFallsBack ==
    (/\ pc = "Done"
     /\ tool_call.t = "dict"
     /\ DictGet(tool_call, "name", JNone).t = "str"
     /\ DictGet(tool_call, "arguments", JNone).t = "dict"
     /\ \A i \in 1..Len(tools) : ~Matches(tools[i], DictGet(tool_call, "name", JNone)))
        => (calls = <<>> /\ ret = ReturnStr(assistant_reply))

\* C3: once the first reply is in and the parser yields None for it, run is
\* either about to parse it or done; it has called no tool and issued no
\* second request, and when done it has returned that reply verbatim.
C3_NoCallReturnsReply ==
    (/\ Len(responses) >= 1
     /\ ~responses[1].raised
     /\ parse_tool_call(responses[1].content) = JNone)
        => /\ pc \in {"Replied", "Done"}
           /\ calls = <<>>
           /\ Len(requests) = 1
           /\ pc = "Done" => ret = ReturnStr(responses[1].content)

W3_NoCallReturned ==
    /\ pc = "Done"
    /\ Len(responses) = 1
    /\ ~responses[1].raised
    /\ responses[1].content # <<>>
    /\ parse_tool_call(responses[1].content) = JNone
    /\ ret = ReturnStr(responses[1].content)

\* C4: when the call of the matched tool raises with message m, run is done
\* and has returned the serialized object {"error": m} (decoding the answer
\* gives back exactly that object); nothing is raised and there is no
\* second request.
C4_ToolErrorIsAnswer ==
    (calls # <<>> /\ calls[1].out.raised)
        => /\ pc = "Done"
           /\ ret = ReturnStr(JsonDumps(JDict(<<Entry("error", JStr(calls[1].out.msg))>>)))
           /\ JsonLoads(ret.text) =
                ParseOk(JDict(<<Entry("error", JStr(calls[1].out.msg))>>), <<>>)
           /\ Len(requests) = 1
           /\ Len(calls) = 1

W4_ToolRaised ==
    /\ pc = "Done"
    /\ Len(calls) = 1
    /\ calls[1].out.raised
    /\ calls[1].out.msg = "unsupported operand type(s) for +: 'NoneType' and 'NoneType'"
    /\ ret.how = "str"

\* C5: when the tool returns an {"error": ...} value, run goes on as after
\* any result: the second request is issued with the serialized value in
\* its last, user-role message, and the answer is the second reply's text.
C5_InBandErrorForwarded ==
    (/\ calls # <<>>
     /\ ~calls[1].out.raised
     /\ calls[1].out.v.t = "dict"
     /\ "error" \in Keys(calls[1].out.v))
        => /\ pc \in {"ToolReturned", "ResultSent", "Done"}
           /\ pc # "ToolReturned" =>
                /\ Len(requests) = 2
                /\ requests[2][Len(requests[2])] =
                     Message("user", <<Raw("The result of "), Raw(func_name.s), Raw(" is: ")>>
                                     \o JsonDumps(calls[1].out.v))
           /\ (pc = "Done" /\ Len(responses) = 2 /\ ~responses[2].raised) =>
                ret = ReturnStr(responses[2].content)

W5_InBandErrorNarrated ==
    /\ pc = "Done"
    /\ Len(calls) = 1
    /\ calls[1].out = Return(JDict(<<Entry("error",
                         JStr("Failed to fetch weather data: ConnectionError"))>>))
    /\ Len(responses) = 2
    /\ ret = ReturnStr(Prose)

\* C6: a run issues at most two model requests and calls at most one tool.
C6_AtMostTwoRequestsOneCall ==
    /\ Len(requests) <= 2
    /\ Len(responses) <= 2
    /\ Len(calls) <= 1

W6_SharedNameOneCall ==
    /\ pc = "Done"
    /\ Len(tools) >= 2
    /\ Matches(tools[1], func_name)
    /\ Matches(tools[2], func_name)
    /\ Len(calls) = 1
    /\ calls[1].out.raised

\* C7: a second request exists only when a tool call of the run has
\* returned, and its last message is a user message ending with that
\* call's serialized result.
C7_SecondRequestCarriesResult ==
    Len(requests) >= 2 =>
        /\ Len(calls) = 1
        /\ ~calls[1].out.raised
        /\ LET last == requests[2][Len(requests[2])]
               dumped == JsonDumps(calls[1].out.v)
           IN /\ last.role = "user"
              /\ Len(last.content) > Len(dumped)
              /\ SubSeq(last.content, Len(last.content) - Len(dumped) + 1,
                        Len(last.content)) = dumped

W7_SecondRequestIssued ==
    /\ pc = "ResultSent"
    /\ Len(requests) = 2
    /\ Len(calls) = 1
    /\ calls[1].out.v.t = "list"

\* C8: from ResultSent run takes one step, to Done: no further tool call,
\* request or parse, and a second reply is returned as it is; no step leads
\* back to PromptSent and none leaves Done.
C8_OneRoundTrip ==
    [][/\ pc = "ResultSent" =>
            /\ pc' = "Done"
            /\ calls' = calls
            /\ requests' = requests
            /\ tool_call' = tool_call
            /\ Len(responses') = 2
            /\ ~responses'[2].raised => ret' = ReturnStr(responses'[2].content)
       /\ pc' = "PromptSent" => pc \in {"Start", "PromptSent"}
       /\ pc = "Done" => pc' = "Done"]_vars

W8_SecondReplyIsACall ==
    /\ pc = "Done"
    /\ Len(responses) = 2
    /\ ~responses[2].raised
    /\ Truthy(parse_tool_call(responses[2].content))
    /\ ret = ReturnStr(responses[2].content)
    /\ Len(calls) = 1
    /\ Len(requests) = 2

\* C9: a call of add gets exactly {x: num1's value, y: num2's value} of the
\* arguments the model supplied (None for an omitted one, nothing else);
\* for integers a and b the tool returns a + b and the second request
\* carries that number.
C9_AddArgumentsRenamed ==
    (calls # <<>> /\ func_name = JStr("add")) =>
        LET supplied == DictGet(tool_call, "arguments", JDict(<<>>))
            a == DictGet(supplied, "num1", JNone)
            b == DictGet(supplied, "num2", JNone)
        IN /\ calls[1].arguments = JDict(<<Entry("x", a), Entry("y", b)>>)
           /\ (a.t = "int" /\ b.t = "int") =>
                /\ calls[1].out = Return(JInt(a.n + b.n))
                /\ Len(requests) >= 2 =>
                     requests[2][Len(requests[2])].content =
                        <<Raw("The result of "), Raw("add"), Raw(" is: "), N(a.n + b.n)>>

W9_FiveAndThree ==
    /\ pc = "Done"
    /\ func_name = JStr("add")
    /\ DictGet(tool_call, "arguments", JNone) =
         JDict(<<Entry("num1", JInt(5)), Entry("num2", JInt(3))>>)
    /\ Len(calls) = 1
    /\ calls[1].arguments = JDict(<<Entry("x", JInt(5)), Entry("y", JInt(3))>>)
    /\ calls[1].out = Return(JInt(8))
    /\ Len(requests) = 2

\* C10: for a call whose name is not add, the arguments the loop holds and
\* the arguments the tool is called with are the value the model supplied
\* (the empty mapping when it supplied none).
C10_OtherArgumentsUntouched ==
    (/\ pc \in {"CallParsed", "Dispatched", "ToolReturned", "ResultSent"} \/ calls # <<>>
     /\ func_name # JStr("add"))
        => /\ arguments = DictGet(tool_call, "arguments", JDict(<<>>))
           /\ \A i \in 1..Len(calls) :
                calls[i].arguments = DictGet(tool_call, "arguments", JDict(<<>>))

W10_ProcessDataCalled ==
    /\ pc = "Done"
    /\ func_name = JStr("process_data")
    /\ Len(calls) = 1
    /\ Keys(calls[1].arguments) = {"data", "operation"}
    /\ calls[1].arguments = DictGet(tool_call, "arguments", JNone)

\* the first reply has been parsed
Parsed ==
    /\ pc \notin {"Start", "PromptSent", "Replied"}
    /\ ~responses[1].raised

\* a text holds one of the tags
HasTag(text) == \E i \in 1..Len(text) : text[i].k = "tag"

\* C11: a reply that holds neither tag is never a call: parse_tool_call
\* yields None for it, also when the reply by itself is valid JSON.
C11_UntaggedIsNoCall ==
    (Parsed /\ ~HasTag(assistant_reply)) => tool_call = JNone

\* a call has a string for its name and a mapping for its arguments
WellFormedCalls ==
    {c \in ToolCalls : /\ Keys(c) = {"name", "arguments"}
                       /\ DictGet(c, "name", JNone).t = "str"
                       /\ DictGet(c, "arguments", JNone).t = "dict"}

\* C12: parse_tool_call returns and never raises: when the text without
\* the tags decodes as JSON the decoded value comes back, a well-formed
\* tagged call as a mapping with the keys name and arguments; when the
\* decoding fails None comes back and run goes on to return the reply.
C12_ParseNeverRaises ==
    Parsed =>
        LET pv == JsonLoads(clean_tags(assistant_reply)) IN
        /\ tool_call.t \in {"null", "bool", "int", "float", "str", "list", "dict"}
        /\ pv.ok => tool_call = pv.v
        /\ ~pv.ok => (tool_call = JNone /\ pc = "Done"
                        /\ ret = ReturnStr(assistant_reply))
        /\ \A c \in WellFormedCalls :
              assistant_reply = Tagged(c) =>
                  (tool_call = c /\ Keys(tool_call) = {"name", "arguments"})

\* a tagged call was decoded into its mapping
W12_TaggedCallDecoded ==
    /\ pc = "CallParsed"
    /\ assistant_reply = Tagged(ToolCall(JStr("add"),
           JDict(<<Entry("num1", JInt(5)), Entry("num2", JInt(3))>>)))
    /\ tool_call = ToolCall(JStr("add"),
           JDict(<<Entry("num1", JInt(5)), Entry("num2", JInt(3))>>))

\* the definition lines 44-49 build for a function as it was defined
DefinitionOf(f) ==
    JDict(<<Entry("name", JStr(f.name)),
            Entry("description", f.doc),
            Entry("parameters",
                  IF "parameters" \in Keys(f.attrs)
                  THEN DictGet(f.attrs, "parameters", JNone) ELSE JDict(<<>>)),
            Entry("returns",
                  IF "returns" \in Keys(f.attrs)
                  THEN DictGet(f.attrs, "returns", JNone) ELSE JDict(<<>>))>>)

\* C13: a function tool was applied to carries a tool_definition, the one
\* built from the function as defined, however often tool was applied (so
\* tool(tool(f)) carries what tool(f) carries); and calling the function
\* after any number of applications yields what calling the function as
\* defined yields for the same arguments.
C13_ToolIdempotent ==
    /\ ndec >= 1 => decorated.tool_definition = DefinitionOf(defined)
    /\ direct.made => direct.out = Call(defined, direct.args, direct.net)

\* add, decorated twice, was called with 5 and 3 and returned 8
W13_TwiceDecoratedCalled ==
    /\ ndec = 2
    /\ defined.name = "add"
    /\ decorated.tool_definition # JNone
    /\ direct.made
    /\ direct.args = JDict(<<Entry("x", JInt(5)), Entry("y", JInt(3))>>)
    /\ direct.out = Return(JInt(8))

\* a sequence starts with another
IsPrefix(a, b) == Len(a) =< Len(b) /\ SubSeq(b, 1, Len(a)) = a

\* the conversation of the requests issued so far
ConversationShape ==
    /\ messages # <<>> => messages[1] = Message("system", system_prompt(tools))
    /\ Len(requests) >= 1 =>
          requests[1] = <<Message("system", system_prompt(tools)),
                          Message("user", <<Raw(user_msg)>>)>>
    /\ Len(requests) >= 2 =>
          /\ ~calls[1].out.raised
          /\ requests[2] = requests[1] \o
                <<Message("assistant", responses[1].content),
                  Message("user", <<Raw("The result of "), Raw(func_name.s),
                                    Raw(" is: ")>> \o JsonDumps(calls[1].out.v))>>
    /\ Len(requests) =< 2
    /\ requests # <<>> => messages = requests[Len(requests)]

\* C14: the conversation always starts with the system prompt; the first
\* request carries the system prompt and the user's message and nothing
\* else; the second carries these two unchanged, then the first reply
\* verbatim as an assistant message, then the serialized result of the
\* tool as a user message; and every step only appends to the conversation
\* and to the requests issued.
C14_ConversationAppendOnly ==
    /\ []ConversationShape
    /\ [][IsPrefix(messages, messages') /\ IsPrefix(requests, requests')]_vars

\* the second request went out after a tagged reply
W14_FourMessagesSent ==
    /\ pc = "ResultSent"
    /\ Len(requests) = 2
    /\ Len(requests[2]) = 4
    /\ HasTag(requests[2][3].content)

\* the tools of the registry whose name is the requested one
Matching == {i \in 1..Len(tools) : Matches(tools[i], func_name)}

\* C15: a tool is invoked only if its name is the requested one and no
\* tool before it in the registry has that name; it is invoked with the
\* reconciled arguments as keyword bindings; no second invocation follows,
\* whether the first returned or raised; and a run that parsed a call and
\* went past the scan with some tool matching has invoked one.
C15_FirstMatchInvoked ==
    /\ calls # <<>> =>
          /\ Len(calls) = 1
          /\ calls[1].idx \in Matching
          /\ \A j \in Matching : calls[1].idx =< j
          /\ calls[1].arguments = arguments
          /\ arguments =
                Reconcile(func_name, DictGet(tool_call, "arguments", JDict(<<>>))).v
          /\ \E net \in Net :
                calls[1].out = Call(tools[calls[1].idx], arguments, net)
    /\ (pc \in {"ToolReturned", "ResultSent"} \/ (pc = "Done" /\ idx >= 1))
          => (Matching # {} <=> Len(calls) = 1)

\* the name is registered twice, the first entry was invoked and returned
W15_EarliestOfTwoReturned ==
    /\ pc = "Done"
    /\ Len(tools) = 2
    /\ Matching = {1, 2}
    /\ Len(calls) = 1
    /\ calls[1].idx = 1
    /\ ~calls[1].out.raised
    /\ Len(requests) = 2

\* run by itself, as a function of the registry, the user's message, the
\* replies of the model service and the outcomes of the tool, each in the
\* order run consumes them: the conversation, the requests, the calls and
\* the answer it ends with
Outcome(ms, rs, cs, answer) ==
    [messages |-> ms, requests |-> rs, calls |-> cs, ret |-> answer]

Alone(ts, msg, replies, outs) ==
    LET m0 == <<Message("system", system_prompt(ts)), Message("user", <<Raw(msg)>>)>>
        first == replies[1]
        call == parse_tool_call(first.content)
        name == DictGet(call, "name", JNone)
        rec == Reconcile(name, DictGet(call, "arguments", JDict(<<>>)))
        hits == {i \in 1..Len(ts) : Matches(ts[i], name)}
        hit == CHOOSE i \in hits : \A j \in hits : i =< j
        made == <<[idx |-> hit, arguments |-> rec.v, out |-> outs[1]]>>
        m1 == m0 \o <<Message("assistant", first.content),
                       Message("user", ResultMessage(name, outs[1].v))>>
    IN IF first.raised THEN Outcome(m0, <<m0>>, <<>>, Raised(first.msg))
       ELSE IF ~Truthy(call) THEN Outcome(m0, <<m0>>, <<>>, NoCallAnswer(first.content))
       ELSE IF call.t # "dict"
       THEN Outcome(m0, <<m0>>, <<>>, Raised(ArgumentError(call).msg))
       ELSE IF rec.raised THEN Outcome(m0, <<m0>>, <<>>, Raised(rec.msg))
       ELSE IF hits = {} THEN Outcome(m0, <<m0>>, <<>>, ReturnNone)
       ELSE IF Caught(outs[1]) THEN Outcome(m0, <<m0>>, made, ErrorAnswer(outs[1].msg))
       ELSE IF replies[2].raised
       THEN Outcome(m1, <<m0, m1>>, made, ErrorAnswer(replies[2].msg))
       ELSE Outcome(m1, <<m0, m1>>, made, FinalAnswer(replies[2].content))

\* a run kept to itself: under way, its conversation is the one it built
\* from its own message; finished, it is where it would be alone
KeptApart(run) ==
    /\ run.requests # <<>> =>
          /\ run.requests[1] = <<Message("system", system_prompt(tools)),
                                  Message("user", <<Raw(run.user_msg)>>)>>
          /\ run.messages = run.requests[Len(run.requests)]
    /\ run.pc = "Done" =>
          Outcome(run.messages, run.requests, run.calls, run.ret)
            = Alone(tools, run.user_msg, run.responses,
                    [i \in 1..Len(run.calls) |-> run.calls[i].out])

\* C16: no step of a run changes the registry (the list of tools, each
\* with its definition), and of two runs interleaved step by step each
\* keeps to its own conversation and ends with the conversation, requests,
\* tool call and answer it would have alone with the same replies and
\* tool outcomes.
C16_RunsShareNothing ==
    /\ [](KeptApart(Locals) /\ \A i \in 1..Len(parked) : KeptApart(parked[i]))
    /\ [][tools' = tools]_vars

\* both runs are past their tool call and neither has finished
W16_BothUnderWay ==
    /\ parked # <<>>
    /\ parked[1].pc = "ToolReturned"
    /\ pc = "ResultSent"
    /\ user_msg # parked[1].user_msg
    /\ Len(calls) = 1
    /\ Len(parked[1].calls) = 1

\* the places of a run, in the order a run can pass them
Rank(place) ==
    CASE place = "Start" -> 0
      [] place = "PromptSent" -> 1
      [] place = "Replied" -> 2
      [] place = "CallParsed" -> 3
      [] place = "Dispatched" -> 4
      [] place = "ToolReturned" -> 5
      [] place = "ResultSent" -> 6
      [] OTHER -> 7

\* the steps a run has left at most: the places ahead of it and the tools
\* the scan has not looked at
StepsLeft == (Rank("Done") - Rank(pc)) + (Len(tools) + 1 - idx)

\* the moves of a run from place to place; CallParsed lasts while the
\* scan goes through the registry
Moves ==
    {<<"Start", "PromptSent">>, <<"PromptSent", "Replied">>,
     <<"PromptSent", "Done">>, <<"Replied", "Done">>,
     <<"Replied", "CallParsed">>, <<"CallParsed", "CallParsed">>,
     <<"CallParsed", "Dispatched">>, <<"CallParsed", "Done">>,
     <<"Dispatched", "ToolReturned">>, <<"Dispatched", "Done">>,
     <<"ToolReturned", "ResultSent">>, <<"ResultSent", "Done">>}

\* C17: a run, every request and tool invocation of which returns or
\* raises, reaches Done; each step takes it along one of the moves, never
\* back to a place it has left (so PromptSent, entered from Start alone,
\* is passed once, Dispatched and ResultSent at most once), and lowers the
\* number of steps left, which starts at no more than the places plus the
\* tools of the registry and never falls below zero.
C17_RunReachesDone ==
    /\ <>(pc = "Done")
    /\ [](StepsLeft >= 0 /\ StepsLeft =< Rank("Done") + MaxTools + 1)
    /\ [][/\ <<pc, pc'>> \in Moves
          /\ Rank(pc') >= Rank(pc)
          /\ StepsLeft' < StepsLeft]_vars

\* a run that went all the way: scan past one tool, call, second request
W17_LongestPathDone ==
    /\ pc = "Done"
    /\ idx = 2
    /\ Len(calls) = 1
    /\ Len(requests) = 2
    /\ Len(responses) = 2
    /\ ret.how = "str"

\* the scores of the first i articles added up, an article without the
\* key adding nothing
RECURSIVE ScoreTotal(_, _)
ScoreTotal(articles, i) ==
    IF i = 0 THEN 0
    ELSE ScoreTotal(articles, i - 1)
         + (IF "score" \in Keys(articles[i])
            THEN DictGet(articles[i], "score", JNone).n ELSE 0)

\* C18: process_data called with operation "average" on a list of
\* articles returns the mapping with the one key average_score; its value
\* is the int 0 when no article has a score key, and otherwise the number
\* that, times the number of articles having the key, is the sum of their
\* scores.
C18_AverageOfScores ==
    (/\ direct.made
     /\ decorated.name = "process_data"
     /\ DictGet(direct.args, "operation", JNone) = JStr("average")
     /\ DictGet(direct.args, "data", JNone) \in ArticleData)
        => LET articles == Items(DictGet(direct.args, "data", JNone))
               scored == {i \in 1..Len(articles) : "score" \in Keys(articles[i])}
               s == DictGet(direct.out.v, "average_score", JNone)
           IN /\ ~direct.out.raised
              /\ Keys(direct.out.v) = {"average_score"}
              /\ scored = {} => s = JInt(0)
              /\ scored # {} =>
                    /\ s.t = "float"
                    /\ s.n * Cardinality(scored) = ScoreTotal(articles, Len(articles)) * s.d

\* the scores 10, 20, 30 average to 20
W18_TenTwentyThirty ==
    /\ direct.made
    /\ decorated.name = "process_data"
    /\ direct.args =
         JDict(<<Entry("data", JList(<<JDict(<<Entry("score", JInt(10))>>),
                                       JDict(<<Entry("score", JInt(20))>>),
                                       JDict(<<Entry("score", JInt(30))>>)>>)),
                 Entry("operation", JStr("average"))>>)
    /\ direct.out = Return(JDict(<<Entry("average_score", JFloat(20, 1))>>))

C20_AddParameterNamesDiscarded ==
    (/\ calls # <<>>
     /\ func_name = JStr("add")
     /\ Keys(DictGet(tool_call, "arguments", JDict(<<>>))) \cap {"num1", "num2"} = {})
        => /\ calls[1].arguments = JDict(<<Entry("x", JNone), Entry("y", JNone)>>)
           /\ calls[1].out.raised
           /\ calls[1].out.msg =
                "unsupported operand type(s) for +: 'NoneType' and 'NoneType'"
           /\ pc = "Done"
           /\ ret.how = "str"
           /\ JsonLoads(ret.text).v = JDict(<<Entry("error", JStr(calls[1].out.msg))>>)
           /\ Len(requests) = 1
           /\ Len(responses) = 1

\* the reply named add with x and y, and add was called with None twice
W20_XAndYSupplied ==
    /\ pc = "Done"
    /\ func_name = JStr("add")
    /\ DictGet(tool_call, "arguments", JNone) =
         JDict(<<Entry("x", JInt(1)), Entry("y", JInt(1))>>)
    /\ Len(calls) = 1
    /\ calls[1].arguments = JDict(<<Entry("x", JNone), Entry("y", JNone)>>)
    /\ calls[1].out.raised

====
